---- MODULE Spec2Model ----
(***************************************************************************)
(* A model of the chain-activity monitoring engine of the Discord tracking *)
(* bot: the startup connection (setup_web3_connection), the registry       *)
(* (DataManager), the track / untrack commands, and the polling task       *)
(* monitor_addresses with process_transaction / process_token_transfer.    *)
(*                                                                         *)
(* Python strings are modelled as pairs <<text, form>>.  An address string *)
(* is a pair whose text is an address id and whose form is "cs" (the       *)
(* checksummed spelling) or "lc" (the lowercase spelling); any other pair  *)
(* is a string that Web3.is_address rejects.                               *)
(*                                                                         *)
(* asyncio runs one coroutine at a time: the code between two suspension   *)
(* points (channel.send, ctx.send, asyncio.sleep) is atomic with respect   *)
(* to the other coroutines.  The polling task is split into small steps;   *)
(* while a task is between two suspension points (Busy) no other coroutine *)
(* takes a step.                                                           *)
(***************************************************************************)
EXTENDS Integers, Sequences, FiniteSets, TLC

(***************************************************************************)
(* Bounds of the model.                                                    *)
(***************************************************************************)
\* Highest head height the provider reports.
MaxHead == 3
\* Entries (live or deleted) the registry dict holds before CPython would
\* resize it; deleted entries keep their slot until then.
MaxSlots == 2
\* Polling tasks that can exist (one per on_ready event).
MaxLoops == 2

\* setup_web3_connection(max_retries=3, ...)
max_retries == 3

(***************************************************************************)
(* Strings and addresses.                                                  *)
(***************************************************************************)
AddrIds == {"A", "B", "T", "X"}

None == <<"None", "none">>

Str(text, form) == <<text, form>>

\* Web3.is_address
is_address(s) == s[1] \in AddrIds /\ s[2] \in {"cs", "lc"}

\* Web3.to_checksum_address (raises on a string that is no address: callers
\* test is_address first, or handle the exception).
to_checksum_address(s) == <<s[1], "cs">>

\* str.lower() of an address string.
lower(s) == <<s[1], "lc">>

\* f"{checksum_address[:6]}...{checksum_address[-4:]}"
ShortName(a) == <<a[1], "short">>

\* '0x' + topic.hex()[-40:] : the low 20 bytes of a topic, in lowercase hex.
TopicAddress(topic) == <<topic[1], "lc">>

\* A 32-byte topic holding a left-padded address.
Topic(id) == <<id, "topic">>

(***************************************************************************)
(* The chain: block height -> transactions, each with its receipt.         *)
(* Amounts are in tenths of the native unit (10 = 1.0 ETH).  The input of  *)
(* a transaction is the sequence of its bytes: "0x" is << >>.              *)
(***************************************************************************)
\* The selector of transfer(address,uint256): '0xa9059cbb'.
TransferSelector == <<"a9", "05", "9c", "bb">>

\* topic[0] of Transfer(address,address,uint256)
TransferSig == <<"ddf252ad", "topic">>

Tx(h, f, t, v, inp, st, lg) ==
    [hash |-> h, from |-> f, to |-> t, value |-> v, input |-> inp,
     status |-> st, logs |-> lg]

Log(tok, tops, amount) ==
    [address |-> Str(tok, "cs"), topics |-> tops, data |-> amount]

Chain(height) ==
    CASE height = 1 ->
           << Tx("h1", Str("A", "cs"), Str("B", "cs"), 10, << >>, 1, << >>) >>
      [] height = 2 ->
           << Tx("h2", Str("A", "cs"), Str("T", "cs"), 0, TransferSelector, 1,
                 << Log("T", <<TransferSig, Topic("A"), Topic("B")>>, 20),
                    \* an ERC-721 Transfer: the token id is a fourth topic
                    Log("N", <<TransferSig, Topic("X"), Topic("A"), Topic("1")>>, 0)
                 >>),
              Tx("h3", Str("X", "cs"), Str("B", "cs"), 30, << >>, 0, << >>) >>
      [] OTHER -> << >>

Hashes == {"h1", "h2", "h3"}

AllTxs == UNION {{Chain(b)[i] : i \in 1..Len(Chain(b))} : b \in 1..MaxHead}

TxOf(h) == CHOOSE t \in AllTxs : t.hash = h

(***************************************************************************)
(* The registry dict (DataManager.data) as CPython keeps it: the entries   *)
(* in insertion order, a deleted entry leaving a dummy in its slot.        *)
(***************************************************************************)
Dummy == [key |-> None, cfg |-> << >>, live |-> FALSE]

Slot(k, c) == [key |-> k, cfg |-> c, live |-> TRUE]

\* key in d
Has(d, k) == \E i \in 1..Len(d) : d[i].live /\ d[i].key = k

\* len(d)
Used(d) == Cardinality({i \in 1..Len(d) : d[i].live})

\* d[k]
Get(d, k) == d[CHOOSE i \in 1..Len(d) : d[i].live /\ d[i].key = k].cfg

\* d[k] = c
DictSet(d, k, c) ==
    IF Has(d, k)
    THEN [i \in 1..Len(d) |-> IF d[i].live /\ d[i].key = k THEN Slot(k, c) ELSE d[i]]
    ELSE Append(d, Slot(k, c))

\* del d[k]
DictDel(d, k) ==
    [i \in 1..Len(d) |-> IF d[i].live /\ d[i].key = k THEN Dummy ELSE d[i]]

Keys(d) == {d[i].key : i \in {j \in 1..Len(d) : d[j].live}}

\* A plain mapping (address_to_name, name_to_address, last_checked_block):
\* a function whose domain is the set of keys.
EmptyMap == << >>

MapSet(m, k, v) == [x \in DOMAIN m \cup {k} |-> IF x = k THEN v ELSE m[x]]

MapDel(m, k) == [x \in DOMAIN m \ {k} |-> m[x]]

\* m.get(k)
MapGet(m, k) == IF k \in DOMAIN m THEN m[k] ELSE None

(***************************************************************************)
(* State.                                                                  *)
(***************************************************************************)
VARIABLES
    boot,               \* where the module-level code of bot.py is
    attempt,            \* setup_web3_connection: the loop variable
    provider,           \* the endpoint of the global w3
    setup_block,        \* setup_web3_connection read w3.eth.block_number
    connected,          \* what w3.is_connected() of line 224 returned
    data,               \* data_manager.data
    address_to_name,    \* data_manager.address_to_name
    name_to_address,    \* data_manager.name_to_address
    file,               \* the content of tracking_data.json
    processed_txs,      \* data_manager.processed_txs
    task,               \* the monitor_addresses tasks: position and locals
    last_checked_block, \* monitor_addresses: last_checked_block, per task
    notified,           \* notifications delivered to Discord, per hash
    emitted,            \* the notification the last step delivered, if any
    handler,            \* a TransactionHandler call: its arguments and results
    fresh               \* history: the keys added and not scanned since

vars == <<boot, attempt, provider, setup_block, connected, data, address_to_name,
          name_to_address, file, processed_txs, task, last_checked_block,
          notified, emitted, handler, fresh>>

registry == <<data, address_to_name, name_to_address, file>>

startup == <<boot, attempt, provider, setup_block, connected>>

Loops == 1..MaxLoops

\* Saturation of the per-hash delivery count.
MaxNotified == 2

NoEmbed == [hash |-> "none", address |-> None, kind |-> "none",
            outgoing |-> FALSE, amount |-> 0, symbol |-> "none", decimals |-> 0]

\* No TransactionHandler call is under way (bot.py makes none).  fails is
\* not an argument of the code: the logs whose metadata calls raise.
NotCalled == [returned |-> "nothing"]

NoCall == [tx |-> << >>, receipt |-> << >>, filters |-> << >>,
           type |-> "none", matches |-> "none", info |-> NotCalled, fails |-> {}]

NoIter == [used |-> 0, pos |-> 0, len |-> 0]

\* failed and receipt_failed are history fields, not locals of the code:
\* the lowest height of the range being walked whose get_block raised (0:
\* none); the last step of the task was get_transaction_receipt raising.
IdleTask == [pc |-> "idle", current_block |-> 0, it |-> NoIter, address |-> None,
             block_num |-> 0, txi |-> 0, logi |-> 0, embed |-> NoEmbed,
             failed |-> 0, receipt_failed |-> FALSE]

\* A task at one of these is suspended in the event loop (or not yet run).
Suspended == {"new", "sleep12", "sleep30", "native_send", "token_send"}

\* A task at one of these is between two suspension points.
Running == {"top", "for", "block", "tx", "receipt", "log"}

Started == {l \in Loops : task[l].pc # "idle"}

Busy == \E l \in Loops : task[l].pc \in Running

(***************************************************************************)
(* DataManager.                                                            *)
(***************************************************************************)
\* The contents tracking_data.json may have when the process starts: no file,
\* or a file holding an entry whose key is not an address.
InitialFiles ==
    { << >>,
      << Slot(Str("zz", "raw"), [channel_id |-> 1, name |-> Str("old", "raw")]) >> }

\* A file a previous run saved: one tracked address, no filter.
SavedFile ==
    << Slot(Str("A", "cs"), [channel_id |-> 1, name |-> Str("alice", "raw")]) >>

\* DataManager._init_mappings
InitAddressToName(d) ==
    [k \in {x \in Keys(d) : "name" \in DOMAIN Get(d, x)} |-> Get(d, k).name]

InitNameToAddress(d) ==
    [n \in {Get(d, x).name : x \in {y \in Keys(d) : "name" \in DOMAIN Get(d, y)}} |->
        \* a later entry with the same name overwrites an earlier one
        LET idx == {i \in 1..Len(d) : d[i].live /\ "name" \in DOMAIN d[i].cfg
                                       /\ d[i].cfg.name = n}
        IN d[CHOOSE i \in idx : \A j \in idx : j <= i].key]

\* DataManager.save_data: the write may fail, which is logged and swallowed.
save_data(f, d, io) == IF io THEN d ELSE f

\* DataManager.add_address, as the new <<data, address_to_name, name_to_address>>.
add_address(d, a2n, n2a, address, name, config) ==
    [data |-> DictSet(d, address,
                      [x \in DOMAIN config \cup {"name"} |->
                          IF x = "name" THEN name ELSE config[x]]),
     address_to_name |-> MapSet(a2n, address, name),
     name_to_address |-> MapSet(n2a, name, address),
     saved |-> TRUE, result |-> "added"]

\* DataManager.remove_address.  result: "true", "false", or "raised" when a
\* del on a mapping raises KeyError (after the entry has left data).
remove_address(d, a2n, n2a, identifier) ==
    LET address == IF is_address(identifier)
                   THEN to_checksum_address(identifier)
                   ELSE MapGet(n2a, identifier)
        name == IF is_address(identifier)
                THEN MapGet(a2n, to_checksum_address(identifier))
                ELSE identifier
        same == [data |-> d, address_to_name |-> a2n, name_to_address |-> n2a,
                 saved |-> FALSE, result |-> "false"]
    IN IF address # None /\ Has(d, address)
       THEN IF name = None
            THEN [same EXCEPT !.data = DictDel(d, address), !.saved = TRUE,
                              !.result = "true"]
            ELSE IF name \notin DOMAIN n2a
            THEN [same EXCEPT !.data = DictDel(d, address), !.result = "raised"]
            ELSE IF address \notin DOMAIN a2n
            THEN [same EXCEPT !.data = DictDel(d, address),
                              !.name_to_address = MapDel(n2a, name),
                              !.result = "raised"]
            ELSE [data |-> DictDel(d, address),
                  address_to_name |-> MapDel(a2n, address),
                  name_to_address |-> MapDel(n2a, name),
                  saved |-> TRUE, result |-> "true"]
       ELSE same

\* A cache that is never consulted.
is_tx_processed_Never(txs, tx_hash) == FALSE

\* DataManager.is_tx_processed
is_tx_processed(txs, tx_hash) == tx_hash \in txs

\* A cache that keeps the last hash only.
mark_tx_processed_KeepsLast(txs, tx_hash) == {tx_hash}

\* DataManager.mark_tx_processed
mark_tx_processed(txs, tx_hash) == txs \cup {tx_hash}

(***************************************************************************)
(* The track and untrack commands.                                         *)
(***************************************************************************)
\* An optional argument of !track: "token=<s>" is [k |-> "token", s |-> <s>];
\* "min=<x>" is [k |-> "min", ok |-> float(x) parses, v |-> its value].
TokenArg(s) == [k |-> "token", s |-> s, ok |-> TRUE, v |-> 0]

MinArg(ok, v) == [k |-> "min", s |-> None, ok |-> ok, v |-> v]

\* track_address, the loop over *args: the config, or "rejected".
RECURSIVE ParseArgs(_, _)
ParseArgs(args, config) ==
    IF args = << >> THEN [ok |-> TRUE, config |-> config]
    ELSE LET arg == Head(args) IN
         IF arg.k = "token"
         THEN IF ~is_address(arg.s)
              THEN [ok |-> FALSE, config |-> config]
              ELSE ParseArgs(Tail(args),
                             [x \in DOMAIN config \cup {"token_address"} |->
                                 IF x = "token_address"
                                 THEN to_checksum_address(arg.s) ELSE config[x]])
         ELSE IF arg.k = "min"
         THEN IF ~arg.ok \/ arg.v <= 0
              THEN [ok |-> FALSE, config |-> config]
              ELSE ParseArgs(Tail(args),
                             [x \in DOMAIN config \cup {"min_amount"} |->
                                 IF x = "min_amount" THEN arg.v ELSE config[x]])
         ELSE ParseArgs(Tail(args), config)

\* track_address, as the new registry and what the command answered.
track_address(d, a2n, n2a, address, name, args) ==
    LET same(why) == [data |-> d, address_to_name |-> a2n, name_to_address |-> n2a,
                      saved |-> FALSE, result |-> why]
        checksum_address == to_checksum_address(address)
        parsed == ParseArgs(args, [channel_id |-> 1])
    IN IF ~is_address(address) THEN same("invalid address")
       ELSE IF Has(d, checksum_address) THEN same("already tracked")
       ELSE IF name # None /\ name \in DOMAIN n2a THEN same("name used")
       ELSE IF ~parsed.ok THEN same("invalid filter")
       ELSE add_address(d, a2n, n2a, checksum_address,
                        IF name = None THEN ShortName(checksum_address) ELSE name,
                        parsed.config)

\* What the users type in this model.
TrackInputs ==
    { <<Str("A", "lc"), None, <<MinArg(TRUE, 20)>> >>,
      <<Str("B", "cs"), Str("bob", "raw"), << >> >>,
      <<Str("nope", "raw"), None, << >> >> }

UntrackInputs ==
    { Str("A", "lc"), Str("bob", "raw"), Str("old", "raw"), Str("ghost", "raw") }

(***************************************************************************)
(* Startup: setup_web3_connection and the module-level check after it.     *)
(***************************************************************************)
InitWith(files) ==
    /\ boot = "setup"
    /\ attempt = 0
    /\ provider = "none"
    /\ setup_block = FALSE
    /\ connected = "unknown"
    /\ data \in files
    /\ address_to_name = InitAddressToName(data)
    /\ name_to_address = InitNameToAddress(data)
    /\ file = data
    /\ processed_txs = {}
    /\ task = [l \in Loops |-> IdleTask]
    /\ last_checked_block = [l \in Loops |-> EmptyMap]
    /\ notified = [h \in Hashes |-> 0]
    /\ emitted = NoEmbed
    /\ handler = NoCall
    /\ fresh = Keys(data)

Init == InitWith(InitialFiles)

monitor == <<processed_txs, task, last_checked_block, notified>>

\* No ALCHEMY_API_KEY: the public endpoint is returned without any call.
SetupNoKey ==
    /\ boot = "setup"
    /\ boot' = "check"
    /\ provider' = "public"
    /\ emitted' = NoEmbed
    /\ UNCHANGED <<handler, fresh>>
    /\ UNCHANGED <<attempt, setup_block, connected, registry, monitor>>

SetupWithKey ==
    /\ boot = "setup"
    /\ boot' = "attempt"
    /\ emitted' = NoEmbed
    /\ UNCHANGED <<handler, fresh>>
    /\ UNCHANGED <<attempt, provider, setup_block, connected, registry, monitor>>

\* One pass of `for attempt in range(max_retries)`: is_connected() and then
\* w3.eth.block_number both succeed, and the Alchemy w3 is returned.
AttemptSucceeds ==
    /\ boot = "attempt"
    /\ attempt < max_retries
    /\ boot' = "check"
    /\ provider' = "alchemy"
    /\ setup_block' = TRUE
    /\ attempt' = 0
    /\ emitted' = NoEmbed
    /\ UNCHANGED <<handler, fresh>>
    /\ UNCHANGED <<connected, registry, monitor>>

\* is_connected() is false, or a call raises: next attempt.
AttemptFails ==
    /\ boot = "attempt"
    /\ attempt < max_retries
    /\ attempt' = attempt + 1
    /\ emitted' = NoEmbed
    /\ UNCHANGED <<handler, fresh>>
    /\ UNCHANGED <<boot, provider, setup_block, connected, registry, monitor>>

\* The attempts are used up: the public endpoint is returned without any call.
SetupFallback ==
    /\ boot = "attempt"
    /\ attempt = max_retries
    /\ boot' = "check"
    /\ provider' = "public"
    /\ attempt' = 0
    /\ emitted' = NoEmbed
    /\ UNCHANGED <<handler, fresh>>
    /\ UNCHANGED <<setup_block, connected, registry, monitor>>

\* The module without the raise of line 225.
FinalCheck_NoRaise(is_connected) == "connected"

\* Lines 224-225: where the module goes after `if not w3.is_connected()`:
\* on to bot.run, or out by the raise.
FinalCheck(is_connected) == IF is_connected THEN "connected" ELSE "fatal"

FinalCheckPasses ==
    /\ boot = "check"
    /\ connected' = "yes"
    /\ boot' = FinalCheck(TRUE)
    /\ emitted' = NoEmbed
    /\ UNCHANGED <<handler, fresh>>
    /\ UNCHANGED <<attempt, provider, setup_block, registry, monitor>>

FinalCheckFails ==
    /\ boot = "check"
    /\ connected' = "no"
    /\ boot' = FinalCheck(FALSE)
    /\ emitted' = NoEmbed
    /\ UNCHANGED <<handler, fresh>>
    /\ UNCHANGED <<attempt, provider, setup_block, registry, monitor>>

(***************************************************************************)
(* Events of the Discord client: on_ready, the commands, shutdown.         *)
(***************************************************************************)
\* on_ready: bot.loop.create_task(monitor_addresses()).  discord.py fires the
\* event when the session is established, and again after a reconnect that
\* could not resume the session.
on_ready ==
    /\ boot = "connected"
    /\ ~Busy
    /\ \E l \in Loops :
         /\ task[l].pc = "idle"
         /\ \A k \in Loops : k < l => task[k].pc # "idle"
         /\ task' = [task EXCEPT ![l].pc = "new"]
    /\ emitted' = NoEmbed
    /\ UNCHANGED <<handler, fresh>>
    /\ UNCHANGED <<startup, registry, processed_txs, last_checked_block, notified>>

\* The track command, the registry dict holding at most `slots` entries.
TrackIn(inp, io, slots) ==
    /\ boot = "connected"
    /\ ~Busy
    /\ LET r == track_address(data, address_to_name, name_to_address,
                              inp[1], inp[2], inp[3])
       IN /\ Len(r.data) <= slots
          /\ data' = r.data
          /\ address_to_name' = r.address_to_name
          /\ name_to_address' = r.name_to_address
          /\ file' = IF r.saved THEN save_data(file, r.data, io) ELSE file
          /\ fresh' = fresh \cup (Keys(r.data) \ Keys(data))
    /\ emitted' = NoEmbed
    /\ UNCHANGED handler
    /\ UNCHANGED <<startup, monitor>>

Track(inp, io) == TrackIn(inp, io, MaxSlots)

Untrack(identifier, io) ==
    /\ boot = "connected"
    /\ ~Busy
    /\ LET r == remove_address(data, address_to_name, name_to_address, identifier)
       IN /\ data' = r.data
          /\ address_to_name' = r.address_to_name
          /\ name_to_address' = r.name_to_address
          /\ file' = IF r.saved THEN save_data(file, r.data, io) ELSE file
          /\ fresh' = fresh \cap Keys(r.data)
    /\ emitted' = NoEmbed
    /\ UNCHANGED handler
    /\ UNCHANGED <<startup, monitor>>

FirstReady == Started = {} /\ on_ready

Reconnect == Started # {} /\ on_ready

\* A task that, when cancelled in a send, records the block it was at.
AfterCancel_SavesProgress(lcb, t) ==
    IF t.pc \in {"native_send", "token_send"}
    THEN [x \in DOMAIN lcb \cup {t.address} |->
            IF x = t.address THEN t.block_num ELSE lcb[x]]
    ELSE lcb

\* monitor_addresses has no handler for CancelledError (no `except
\* Exception` catches it, and there is no finally clause): the exception
\* leaves the coroutine, and last_checked_block is as it was.
AfterCancel(lcb, t) == lcb

\* bot.run returns (the process is interrupted): every task of the event loop
\* is cancelled where it is suspended.
Shutdown ==
    /\ boot = "connected"
    /\ ~Busy
    /\ boot' = "closed"
    /\ task' = [l \in Loops |->
                  IF task[l].pc = "idle" THEN task[l]
                  ELSE [IdleTask EXCEPT !.pc = "cancelled"]]
    /\ last_checked_block' =
         [l \in Loops |-> AfterCancel(last_checked_block[l], task[l])]
    /\ emitted' = NoEmbed
    /\ UNCHANGED <<handler, fresh>>
    /\ UNCHANGED <<attempt, provider, setup_block, connected, registry,
                   processed_txs, notified>>

(***************************************************************************)
(* monitor_addresses.                                                      *)
(***************************************************************************)
\* What a call to the provider can do.
RpcOutcomes == {"ok", "raises"}

\* next() of the iterator over data_manager.data.keys(), as CPython's
\* dictiter_iternextkey: RuntimeError when the dict's size differs from the
\* size at the iterator's creation, or when an entry is found after as many
\* keys as the dict had then were returned; StopIteration past the entries.
dict_next(d, it) ==
    LET live == {i \in it.pos..Len(d) : d[i].live}
        i0 == CHOOSE i \in live : \A j \in live : i <= j
    IN IF it.used # Used(d) THEN [kind |-> "RuntimeError", key |-> None, it |-> it]
       ELSE IF live = {} THEN [kind |-> "StopIteration", key |-> None, it |-> it]
       ELSE IF it.len = 0 THEN [kind |-> "RuntimeError", key |-> None, it |-> it]
       ELSE [kind |-> "key", key |-> d[i0].key,
             it |-> [it EXCEPT !.pos = i0 + 1, !.len = @ - 1]]

\* iter(data_manager.data.keys())
dict_iter(d) == [used |-> Used(d), pos |-> 1, len |-> Used(d)]

\* The transaction the task is at.
CurrentTx(t) == Chain(t.block_num)[t.txi]

\* The log the task is at.
CurrentLog(t) == CurrentTx(t).logs[t.logi]

\* Lines 280-283: the tracked address is the sender, or else the recipient.
NativeOutgoing(tx, address) == lower(tx.from) = lower(address)

NativeIncoming(tx, address) ==
    ~NativeOutgoing(tx, address) /\ tx.to # None /\ lower(tx.to) = lower(address)

\* Line 291: the log is an ERC-20 Transfer.
IsTransferLog(log) == Len(log.topics) = 3 /\ log.topics[1] = TransferSig

\* Lines 292-300: the tracked address is the recipient, or else the sender.
TokenIncoming(log, address) ==
    IsTransferLog(log) /\ lower(TopicAddress(log.topics[3])) = lower(address)

TokenOutgoing(log, address) ==
    /\ IsTransferLog(log)
    /\ ~TokenIncoming(log, address)
    /\ lower(TopicAddress(log.topics[2])) = lower(address)

\* The ERC-20 metadata of the token contracts of the chain.
TokenInfo(tok) == [name |-> "Token", symbol |-> "TOK", decimals |-> 1]

\* Lines 636-638.
PlaceholderInfo == [name |-> "Unknown Token", symbol |-> "???", decimals |-> 18]

\* The test without its first half: the channel is found, whether or not
\* the address is in the registry.
HasChannel_AnyAddress(d, address, channel) == channel

\* Lines 607-610 and 697-700: the channel the notification goes to exists.
HasChannel(d, address, channel) ==
    /\ Has(d, address)
    /\ "channel_id" \in DOMAIN Get(d, address)
    /\ channel

\* process_transaction without the test of lines 551-553.
process_transaction_AnyStatus(tx_hash, address, is_outgoing, txs, d, rpc, channel) ==
    IF is_tx_processed(txs, tx_hash) THEN NoEmbed
    ELSE IF rpc # "ok" THEN NoEmbed
    ELSE IF ~HasChannel(d, address, channel) THEN NoEmbed
    ELSE [hash |-> tx_hash, address |-> address, kind |-> "native",
          outgoing |-> is_outgoing, amount |-> TxOf(tx_hash).value,
          symbol |-> "ETH", decimals |-> 1]

\* process_transaction up to `await channel.send(embed=embed)`: the embed it
\* is about to send, or NoEmbed when it returns without sending.
\* rpc: get_transaction / get_transaction_receipt; channel: bot.get_channel
\* finds the channel.
process_transaction(tx_hash, address, is_outgoing, txs, d, rpc, channel) ==
    IF is_tx_processed(txs, tx_hash) THEN NoEmbed
    ELSE IF rpc # "ok" THEN NoEmbed
    ELSE IF TxOf(tx_hash).status # 1 THEN NoEmbed
    ELSE IF ~HasChannel(d, address, channel) THEN NoEmbed
    ELSE [hash |-> tx_hash, address |-> address, kind |-> "native",
          outgoing |-> is_outgoing, amount |-> TxOf(tx_hash).value,
          symbol |-> "ETH", decimals |-> 1]

\* process_token_transfer without the handler of lines 634-638: a failing
\* metadata call ends it at lines 708-709.
process_token_transfer_Strict(tx_hash, address, log, is_outgoing, d, meta, channel) ==
    IF meta # "ok" \/ ~HasChannel(d, address, channel) THEN NoEmbed
    ELSE [hash |-> tx_hash, address |-> address, kind |-> "token",
          outgoing |-> is_outgoing, amount |-> log.data,
          symbol |-> TokenInfo(log.address).symbol,
          decimals |-> TokenInfo(log.address).decimals]

\* process_token_transfer up to `await channel.send(embed=embed)`.
\* meta: the name/symbol/decimals calls.
process_token_transfer(tx_hash, address, log, is_outgoing, d, meta, channel) ==
    LET info == IF meta = "ok" THEN TokenInfo(log.address) ELSE PlaceholderInfo
    IN IF ~HasChannel(d, address, channel) THEN NoEmbed
       ELSE [hash |-> tx_hash, address |-> address, kind |-> "token",
             outgoing |-> is_outgoing, amount |-> log.data,
             symbol |-> info.symbol, decimals |-> info.decimals]

\* The task moves on from a log / from a transaction.
AfterTx(t) ==
    IF t.txi < Len(Chain(t.block_num))
    THEN [t EXCEPT !.pc = "tx", !.txi = @ + 1, !.logi = 0, !.embed = NoEmbed]
    ELSE [t EXCEPT !.pc = "block", !.block_num = @ + 1, !.txi = 0, !.logi = 0,
                   !.embed = NoEmbed]

AfterLog(t) ==
    IF t.logi < Len(CurrentTx(t).logs)
    THEN [t EXCEPT !.pc = "log", !.logi = @ + 1, !.embed = NoEmbed]
    ELSE AfterTx(t)

\* Line 319 (and 315): the task goes to sleep; its locals are dead.
Asleep(pc) == [IdleTask EXCEPT !.pc = pc]

\* A loop that reads the head again after every address.
BackToFor_RereadsHead(t) ==
    [t EXCEPT !.pc = "for", !.address = None, !.block_num = 0, !.txi = 0,
              !.logi = 0, !.embed = NoEmbed, !.failed = 0,
              !.receipt_failed = FALSE, !.current_block = MaxHead]

\* Line 309, or the `continue` of line 313: back to the for statement.
BackToFor(t) ==
    [t EXCEPT !.pc = "for", !.address = None, !.block_num = 0, !.txi = 0,
              !.logi = 0, !.embed = NoEmbed, !.failed = 0,
              !.receipt_failed = FALSE]

\* The loop without the handler of lines 311-313: the exception of one
\* address reaches the handler of the cycle.
AfterAddressError_Propagates(t) == Asleep("sleep30")

\* Lines 311-313: the exception of one address is logged, and the for
\* statement goes on.
AfterAddressError(t) == BackToFor(t)

\* The loop without the handler of lines 317-319: the exception ends the
\* coroutine.
AfterCycleError_Terminates == [IdleTask EXCEPT !.pc = "terminated"]

\* Lines 317-319: the exception ends the cycle; the task sleeps 30 s.
AfterCycleError == Asleep("sleep30")

\* Line 315: the cycle is over; the task sleeps 12 s.
AfterCycle == Asleep("sleep12")

Quiet == emitted' = NoEmbed /\ UNCHANGED <<startup, registry, handler, fresh>>

\* asyncio.sleep returns (or the new task runs for the first time): the next
\* pass of `while True` begins.
Wake(l) ==
    /\ task[l].pc \in {"new", "sleep12", "sleep30"}
    /\ ~Busy
    /\ task' = [task EXCEPT ![l] = [IdleTask EXCEPT !.pc = "top"]]
    /\ Quiet
    /\ UNCHANGED <<processed_txs, last_checked_block, notified>>

\* Lines 255-258: the head is read, once, and the iteration begins.
HeadOk(l) ==
    /\ task[l].pc = "top"
    /\ \E head \in 1..MaxHead :
         task' = [task EXCEPT ![l] = [@ EXCEPT !.pc = "for",
                                         !.current_block = head,
                                         !.it = dict_iter(data)]]
    /\ Quiet
    /\ UNCHANGED <<processed_txs, last_checked_block, notified>>

\* Line 255 raises: lines 317-319.
HeadFails(l) ==
    /\ task[l].pc = "top"
    /\ task' = [task EXCEPT ![l] = AfterCycleError]
    /\ Quiet
    /\ UNCHANGED <<processed_txs, last_checked_block, notified>>

\* Line 258 raises RuntimeError: lines 317-319.
ForRaises(l) ==
    /\ task[l].pc = "for"
    /\ dict_next(data, task[l].it).kind = "RuntimeError"
    /\ task' = [task EXCEPT ![l] = AfterCycleError]
    /\ Quiet
    /\ UNCHANGED <<processed_txs, last_checked_block, notified>>

\* Line 258 ends the loop: line 315.
ForDone(l) ==
    /\ task[l].pc = "for"
    /\ dict_next(data, task[l].it).kind = "StopIteration"
    /\ task' = [task EXCEPT ![l] = AfterCycle]
    /\ Quiet
    /\ UNCHANGED <<processed_txs, last_checked_block, notified>>

\* Line 261 raises on a key that is no address: lines 311-313.
AddressRaises(l) ==
    /\ task[l].pc = "for"
    /\ LET n == dict_next(data, task[l].it) IN
         /\ n.kind = "key"
         /\ ~is_address(n.key)
         /\ task' = [task EXCEPT ![l] = AfterAddressError([@ EXCEPT !.it = n.it])]
    /\ Quiet
    /\ UNCHANGED <<processed_txs, last_checked_block, notified>>

\* A range that begins at the cursor itself.
RangeStart_Inclusive(last_block) == last_block

\* Line 271: the first height of range(last_block + 1, current_block + 1).
RangeStart(last_block) == last_block + 1

\* Lines 261-271: the cursor is initialised and the range built.
AddressBegin(l) ==
    /\ task[l].pc = "for"
    /\ LET n == dict_next(data, task[l].it)
           lcb == last_checked_block[l]
           cur == IF n.key \in DOMAIN lcb THEN lcb
                  ELSE MapSet(lcb, n.key, task[l].current_block - 1)
       IN
         /\ n.kind = "key"
         /\ is_address(n.key)
         /\ last_checked_block' = [last_checked_block EXCEPT ![l] = cur]
         /\ task' = [task EXCEPT ![l] = [@ EXCEPT !.pc = "block", !.it = n.it,
                                            !.address = n.key,
                                            !.block_num = RangeStart(cur[n.key])]]
         /\ fresh' = fresh \ {n.key}
    /\ emitted' = NoEmbed
    /\ UNCHANGED <<startup, registry, handler>>
    /\ UNCHANGED <<processed_txs, notified>>

\* The range is walked: line 309.
RangeDone(l) ==
    /\ task[l].pc = "block"
    /\ task[l].block_num > task[l].current_block
    /\ last_checked_block' =
         [last_checked_block EXCEPT ![l] =
             MapSet(@, task[l].address, task[l].current_block)]
    /\ task' = [task EXCEPT ![l] = BackToFor(@)]
    /\ Quiet
    /\ UNCHANGED <<processed_txs, notified>>

\* Line 274 raises: lines 305-307.
BlockFails(l) ==
    /\ task[l].pc = "block"
    /\ task[l].block_num <= task[l].current_block
    /\ task' = [task EXCEPT ![l] =
                  [@ EXCEPT !.block_num = @ + 1, !.receipt_failed = FALSE,
                            !.failed = IF @ = 0 THEN task[l].block_num ELSE @]]
    /\ Quiet
    /\ UNCHANGED <<processed_txs, last_checked_block, notified>>

\* Lines 274-276.
BlockOk(l) ==
    /\ task[l].pc = "block"
    /\ task[l].block_num <= task[l].current_block
    /\ task' = [task EXCEPT ![l] =
                  IF Chain(@.block_num) = << >>
                  THEN [@ EXCEPT !.block_num = @ + 1, !.receipt_failed = FALSE]
                  ELSE [@ EXCEPT !.pc = "tx", !.txi = 1, !.receipt_failed = FALSE]]
    /\ Quiet
    /\ UNCHANGED <<processed_txs, last_checked_block, notified>>

\* Lines 277-283, neither branch taken.
NoNativeMatch(l) ==
    /\ task[l].pc = "tx"
    /\ ~NativeOutgoing(CurrentTx(task[l]), task[l].address)
    /\ ~NativeIncoming(CurrentTx(task[l]), task[l].address)
    /\ task' = [task EXCEPT ![l] = [@ EXCEPT !.pc = "receipt",
                                        !.receipt_failed = FALSE]]
    /\ Quiet
    /\ UNCHANGED <<processed_txs, last_checked_block, notified>>

\* Lines 280-283: process_transaction is awaited.  It either returns without
\* sending, or suspends in channel.send.
NativeMatch(l) ==
    /\ task[l].pc = "tx"
    /\ LET tx == CurrentTx(task[l])
           address == task[l].address
       IN /\ NativeOutgoing(tx, address) \/ NativeIncoming(tx, address)
          /\ \E rpc \in RpcOutcomes, channel \in BOOLEAN :
               LET e == process_transaction(tx.hash, address,
                                            NativeOutgoing(tx, address),
                                            processed_txs, data, rpc, channel)
               IN task' = [task EXCEPT ![l] =
                             IF e = NoEmbed
                             THEN [@ EXCEPT !.pc = "receipt",
                                            !.receipt_failed = FALSE]
                             ELSE [@ EXCEPT !.pc = "native_send", !.embed = e,
                                            !.receipt_failed = FALSE]]
    /\ Quiet
    /\ UNCHANGED <<processed_txs, last_checked_block, notified>>

Count(n) == IF n < MaxNotified THEN n + 1 ELSE n

\* Lines 611-614: channel.send returns; the hash is marked.
NativeDelivered(l) ==
    /\ task[l].pc = "native_send"
    /\ ~Busy
    /\ emitted' = task[l].embed
    /\ UNCHANGED <<handler, fresh>>
    /\ notified' = [notified EXCEPT ![task[l].embed.hash] = Count(@)]
    /\ processed_txs' = mark_tx_processed(processed_txs, task[l].embed.hash)
    /\ task' = [task EXCEPT ![l] = [@ EXCEPT !.pc = "receipt", !.embed = NoEmbed]]
    /\ UNCHANGED <<startup, registry, last_checked_block>>

\* A handler that takes the transaction as dealt with when its send raised.
AfterSendError_Marks(txs, tx_hash) == txs \cup {tx_hash}

\* Lines 620-621: the exception of the send is logged; line 614 was not
\* reached, and the processed set is as it was.
AfterSendError(txs, tx_hash) == txs

\* Line 611 raises: lines 620-621.
NativeSendRaises(l) ==
    /\ task[l].pc = "native_send"
    /\ ~Busy
    /\ task' = [task EXCEPT ![l] = [@ EXCEPT !.pc = "receipt", !.embed = NoEmbed]]
    /\ processed_txs' = AfterSendError(processed_txs, task[l].embed.hash)
    /\ Quiet
    /\ UNCHANGED <<last_checked_block, notified>>

\* A loop whose handler of the receipt's exception leaves the block.
AfterReceiptError_LeavesBlock(t) ==
    [t EXCEPT !.pc = "block", !.block_num = @ + 1, !.txi = 0, !.logi = 0,
              !.embed = NoEmbed, !.receipt_failed = TRUE]

\* Lines 301-303: the exception is logged, and `continue` goes to the next
\* transaction of the block.
AfterReceiptError(t) == [AfterTx(t) EXCEPT !.receipt_failed = TRUE]

\* Line 287 raises: lines 301-303.
ReceiptFails(l) ==
    /\ task[l].pc = "receipt"
    /\ task' = [task EXCEPT ![l] = AfterReceiptError(@)]
    /\ Quiet
    /\ UNCHANGED <<processed_txs, last_checked_block, notified>>

\* Lines 287-289.
ReceiptOk(l) ==
    /\ task[l].pc = "receipt"
    /\ task' = [task EXCEPT ![l] =
                  IF CurrentTx(@).logs = << >> THEN AfterTx(@)
                  ELSE [@ EXCEPT !.pc = "log", !.logi = 1]]
    /\ Quiet
    /\ UNCHANGED <<processed_txs, last_checked_block, notified>>

\* Lines 291-300, no branch taken.
NoTokenMatch(l) ==
    /\ task[l].pc = "log"
    /\ ~TokenIncoming(CurrentLog(task[l]), task[l].address)
    /\ ~TokenOutgoing(CurrentLog(task[l]), task[l].address)
    /\ task' = [task EXCEPT ![l] = AfterLog(@)]
    /\ Quiet
    /\ UNCHANGED <<processed_txs, last_checked_block, notified>>

\* Lines 296-300: process_token_transfer is awaited.
TokenMatch(l) ==
    /\ task[l].pc = "log"
    /\ LET log == CurrentLog(task[l])
           address == task[l].address
       IN /\ TokenIncoming(log, address) \/ TokenOutgoing(log, address)
          /\ \E meta \in RpcOutcomes, channel \in BOOLEAN :
               LET e == process_token_transfer(CurrentTx(task[l]).hash, address, log,
                                               TokenOutgoing(log, address),
                                               data, meta, channel)
               IN task' = [task EXCEPT ![l] =
                             IF e = NoEmbed THEN AfterLog(@)
                             ELSE [@ EXCEPT !.pc = "token_send", !.embed = e]]
    /\ Quiet
    /\ UNCHANGED <<processed_txs, last_checked_block, notified>>

\* Lines 701-702: channel.send returns.
TokenDelivered(l) ==
    /\ task[l].pc = "token_send"
    /\ ~Busy
    /\ emitted' = task[l].embed
    /\ UNCHANGED <<handler, fresh>>
    /\ notified' = [notified EXCEPT ![task[l].embed.hash] = Count(@)]
    /\ task' = [task EXCEPT ![l] = AfterLog(@)]
    /\ UNCHANGED <<startup, registry, processed_txs, last_checked_block>>

\* Line 701 raises: lines 708-709.
TokenSendRaises(l) ==
    /\ task[l].pc = "token_send"
    /\ ~Busy
    /\ task' = [task EXCEPT ![l] = AfterLog(@)]
    /\ Quiet
    /\ UNCHANGED <<processed_txs, last_checked_block, notified>>

(***************************************************************************)
(* The system.                                                             *)
(***************************************************************************)
\* The steps of a task whose registry holds addresses and does not change.
Scan(l) ==
    \/ Wake(l)
    \/ HeadOk(l)
    \/ HeadFails(l)
    \/ ForDone(l)
    \/ AddressBegin(l)
    \/ RangeDone(l)
    \/ BlockFails(l)
    \/ BlockOk(l)
    \/ NoNativeMatch(l)
    \/ NativeMatch(l)
    \/ NativeDelivered(l)
    \/ NativeSendRaises(l)
    \/ ReceiptFails(l)
    \/ ReceiptOk(l)
    \/ NoTokenMatch(l)
    \/ TokenMatch(l)
    \/ TokenDelivered(l)
    \/ TokenSendRaises(l)

Step(l) ==
    \/ Scan(l)
    \/ ForRaises(l)
    \/ AddressRaises(l)

\* The outcomes of save_data the specification considers.
SaveOutcomes == {TRUE}

Startup ==
    \/ SetupNoKey
    \/ SetupWithKey
    \/ AttemptSucceeds
    \/ AttemptFails
    \/ SetupFallback
    \/ FinalCheckPasses
    \/ FinalCheckFails

\* The session is established once.
Next ==
    \/ Startup
    \/ FirstReady
    \/ \E inp \in TrackInputs, io \in SaveOutcomes : Track(inp, io)
    \/ \E identifier \in UntrackInputs, io \in SaveOutcomes : Untrack(identifier, io)
    \/ Shutdown
    \/ \E l \in Loops : Step(l)

Spec == Init /\ [][Next]_vars

\* The session may be established again: every on_ready creates a task.
\* No command is given in this specification; the registry is the one a
\* previous run saved.
NextReconnect ==
    \/ Startup
    \/ FirstReady
    \/ Reconnect
    \/ Shutdown
    \/ \E l \in Loops : Scan(l)

SpecReconnect == InitWith({SavedFile}) /\ [][NextReconnect]_vars

\* The scheduling of the event loop: a task that can run does run, a sleep
\* ends, a send returns or raises.
FairSpec == Spec /\ \A l \in Loops : WF_vars(Step(l))

(***************************************************************************)
(* The registry under the commands alone: no task is started, so that the  *)
(* layout of the dict is of no consequence and one more entry is afforded. *)
(***************************************************************************)
\* A file whose key is an address in lowercase (written by hand, or by
\* another tool): json.load takes the keys as they are.
LowercaseFile ==
    << Slot(Str("A", "lc"), [channel_id |-> 1, name |-> Str("old", "raw")]) >>

RegistryFiles == InitialFiles \cup {LowercaseFile}

\* What the users type: TrackInputs, and
\*   B under the name the bot would generate for A;
\*   X under that name too;
\*   X under a name that is the address string of A;
\*   T under a name in use, with a valid token filter;
\*   A with a token filter that is no address, with min=0, with min=abc.
TrackCommands ==
    TrackInputs \cup
    { <<Str("B", "cs"), ShortName(Str("A", "cs")), << >> >>,
      <<Str("X", "lc"), ShortName(Str("A", "cs")), << >> >>,
      <<Str("X", "cs"), Str("A", "cs"), << >> >>,
      <<Str("T", "cs"), Str("bob", "raw"), <<TokenArg(Str("T", "lc"))>> >>,
      <<Str("A", "cs"), None, <<TokenArg(Str("bad", "raw"))>> >>,
      <<Str("A", "cs"), None, <<MinArg(TRUE, 0)>> >>,
      <<Str("A", "cs"), None, <<MinArg(FALSE, 0)>> >> }

UntrackCommands ==
    UntrackInputs \cup { Str("A", "cs"), Str("B", "lc"), ShortName(Str("A", "cs")) }

NextRegistry ==
    \/ Startup
    \/ \E inp \in TrackCommands, io \in SaveOutcomes : TrackIn(inp, io, MaxSlots + 1)
    \/ \E identifier \in UntrackCommands, io \in SaveOutcomes : Untrack(identifier, io)

SpecRegistry == InitWith(RegistryFiles) /\ [][NextRegistry]_vars

(***************************************************************************)
(* TransactionHandler._matches_filters (transaction_handler.py).           *)
(***************************************************************************)
\* The filter set of a registry entry: what `track` stored of token= and min=.
FilterSet(config) ==
    [k \in DOMAIN config \cap {"token_address", "min_amount"} |-> config[k]]

\* The filter without its first test (lines 97-99), an entry without filter
\* being taken as one that accepts nothing.
_matches_filters_EmptyRejects(tx, receipt, filters) ==
    IF DOMAIN filters = {} THEN FALSE
    ELSE IF /\ "token_address" \in DOMAIN filters
            /\ tx.to # None
            /\ lower(tx.to) # lower(filters.token_address)
    THEN FALSE
    ELSE IF "min_amount" \in DOMAIN filters /\ tx.value < filters.min_amount
    THEN FALSE
    ELSE TRUE

_matches_filters(tx, receipt, filters) ==
    IF DOMAIN filters = {} THEN TRUE
    ELSE IF /\ "token_address" \in DOMAIN filters
            /\ tx.to # None
            /\ lower(tx.to) # lower(filters.token_address)
    THEN FALSE
    ELSE IF "min_amount" \in DOMAIN filters /\ tx.value < filters.min_amount
    THEN FALSE
    ELSE TRUE

Cursor(l, a) == last_checked_block[l][a]

\* str.startswith, on sequences of bytes.
startswith(s, prefix) ==
    Len(s) >= Len(prefix) /\ SubSeq(s, 1, Len(prefix)) = prefix

\* len() of the hex string of an input: '0x' and two characters a byte.
HexLen(inp) == 2 + 2 * Len(inp)

\* The classifier with the test of the call data before the test of the
\* selector.
_determine_transaction_type_Reordered(tx, receipt) ==
    IF tx.to = None THEN "contract_creation"
    ELSE IF receipt.contractAddress # None \/ HexLen(tx.input) > 2
    THEN "contract_interaction"
    ELSE IF startswith(tx.input, TransferSelector) THEN "token_transfer"
    ELSE "eth_transfer"

\* TransactionHandler._determine_transaction_type
_determine_transaction_type(tx, receipt) ==
    IF tx.to = None THEN "contract_creation"
    ELSE IF startswith(tx.input, TransferSelector) THEN "token_transfer"
    ELSE IF receipt.contractAddress # None \/ HexLen(tx.input) > 2
    THEN "contract_interaction"
    ELSE "eth_transfer"

\* A receipt as the handler reads it.
Receipt(c, st, lg) == [contractAddress |-> c, status |-> st, logs |-> lg]

\* The arguments the handler is called with in this model.
HandlerTxs ==
    { Tx("h", Str("A", "cs"), t, v, inp, 1, << >>) :
        t \in {None, Str("T", "cs"), Str("B", "cs")},
        v \in {0, 20, 30},
        inp \in { << >>, <<"a9", "05">>, <<"12", "34">>,
                  TransferSelector \o <<"00">> } }

HandlerReceipts ==
    { Receipt(c, st, lg) :
        c \in {None, Str("X", "cs")},
        st \in {0, 1},
        lg \in { << >>,
                 << Log("T", <<TransferSig, Topic("A"), Topic("B")>>, 10) >>,
                 \* an ERC-721 Transfer (the token id is a fourth topic), and
                 \* an ERC-20 Transfer after it
                 << Log("N", <<TransferSig, Topic("X"), Topic("A"), Topic("1")>>, 0),
                    Log("T", <<TransferSig, Topic("A"), Topic("B")>>, 10) >> } }

HandlerFilters ==
    { << >>,
      [token_address |-> Str("T", "lc")],
      [min_amount |-> 20],
      [token_address |-> Str("T", "lc"), min_amount |-> 20] }

\* bool, as Python prints it.
Bool(b) == IF b THEN "True" ELSE "False"

InitHandler ==
    /\ boot = "setup"
    /\ attempt = 0
    /\ provider = "none"
    /\ setup_block = FALSE
    /\ connected = "unknown"
    /\ data = << >>
    /\ address_to_name = EmptyMap
    /\ name_to_address = EmptyMap
    /\ file = << >>
    /\ processed_txs = {}
    /\ task = [l \in Loops |-> IdleTask]
    /\ last_checked_block = [l \in Loops |-> EmptyMap]
    /\ notified = [h \in Hashes |-> 0]
    /\ emitted = NoEmbed
    /\ fresh = {}
    /\ handler \in { [tx |-> tx, receipt |-> receipt, filters |-> filters,
                       type |-> "none", matches |-> "none", info |-> NotCalled,
                       fails |-> {}] :
                        tx \in HandlerTxs, receipt \in HandlerReceipts,
                        filters \in HandlerFilters }

\* A call of _determine_transaction_type on the arguments.
Classify ==
    /\ handler.tx # << >>
    /\ handler' = [handler EXCEPT
                     !.type = _determine_transaction_type(handler.tx, handler.receipt)]
    /\ UNCHANGED <<startup, registry, monitor, emitted, fresh>>

\* A call of _matches_filters on the arguments.
Evaluate ==
    /\ handler.tx # << >>
    /\ handler' = [handler EXCEPT
                     !.matches = Bool(_matches_filters(handler.tx, handler.receipt,
                                                       handler.filters))]
    /\ UNCHANGED <<startup, registry, monitor, emitted, fresh>>

\* TransactionHandler._get_token_info: the dict of the three metadata calls,
\* or the empty dict when one of them raises (lines 158-160).
_get_token_info(token_address, meta) ==
    IF meta = "ok"
    THEN [token_name |-> TokenInfo(token_address).name,
          token_symbol |-> TokenInfo(token_address).symbol,
          token_decimals |-> TokenInfo(token_address).decimals]
    ELSE << >>

\* dict.get(key, default)
DictGet(d, key, default) == IF key \in DOMAIN d THEN d[key] ELSE default

\* Line 56: the log is taken as a token transfer.
HandlerTransferLog(log) == Len(log.topics) >= 3 /\ log.topics[1] = TransferSig

\* Lines 57-79: the transfer_info of a log.
TransferInfo(log, token_info) ==
    [token_address |-> log.address,
     token_name |-> DictGet(token_info, "token_name", "Unknown Token"),
     token_symbol |-> DictGet(token_info, "token_symbol", "???"),
     decimals |-> DictGet(token_info, "token_decimals", 18),
     from |-> TopicAddress(log.topics[2]),
     to |-> TopicAddress(log.topics[3]),
     raw_value |-> log.data]

\* Lines 54-86: tx_info['token_transfers'], from the logs i.. of the receipt;
\* fails: the logs whose metadata calls raise.
RECURSIVE TokenTransfers(_, _, _)
TokenTransfers(logs, i, fails) ==
    IF i > Len(logs) THEN << >>
    ELSE IF HandlerTransferLog(logs[i])
    THEN <<TransferInfo(logs[i],
                        _get_token_info(logs[i].address,
                                        IF i \in fails THEN "raises" ELSE "ok"))>>
         \o TokenTransfers(logs, i + 1, fails)
    ELSE TokenTransfers(logs, i + 1, fails)

ReturnedNone == [returned |-> "None"]

\* TransactionHandler.process_transaction: tx_info, or None.
\* rpc: get_transaction / get_transaction_receipt / get_block.
TransactionHandler_process_transaction(tx, receipt, rpc, fails) ==
    IF rpc # "ok" THEN ReturnedNone
    ELSE IF receipt.status = 0 THEN ReturnedNone
    ELSE [returned |-> "tx_info", hash |-> tx.hash, value |-> tx.value,
          status |-> "success",
          token_transfers |-> TokenTransfers(receipt.logs, 1, fails)]

\* A call of process_transaction on the arguments.
Process ==
    /\ handler.tx # << >>
    /\ \E rpc \in RpcOutcomes, fails \in SUBSET (1..Len(handler.receipt.logs)) :
         handler' = [handler EXCEPT
                       !.info = TransactionHandler_process_transaction(
                                    handler.tx, handler.receipt, rpc, fails),
                       !.fails = fails]
    /\ UNCHANGED <<startup, registry, monitor, emitted, fresh>>

NextHandler == Classify \/ Evaluate \/ Process

SpecHandler == InitHandler /\ [][NextHandler]_vars

(***************************************************************************)
(* The claims.                                                             *)
(***************************************************************************)
\* C1: within one run, at most one notification is delivered for every
\* transaction hash, whichever the match kind (native or ERC-20 log).
C1_AtMostOneNotification == \A h \in Hashes : notified[h] <= 1

\* C2: when the fetch of a block of an address's range fails, the walk of
\* that range ends with the address's cursor at its pre-scan value.
C2_CursorRetainedOnFailure ==
    [][\A l \in Loops :
          (task[l].pc = "block" /\ task[l].failed # 0 /\ task'[l].pc = "for")
          => last_checked_block'[l][task[l].address] = Cursor(l, task[l].address)]_vars

\* C3: a notification is delivered for a tracked address only when the
\* transaction satisfies the filter set stored for that address.
C3_FilterRespected ==
    (emitted # NoEmbed /\ Has(data, emitted.address))
    => _matches_filters(TxOf(emitted.hash), TxOf(emitted.hash),
                        FilterSet(Get(data, emitted.address)))

\* C4: the stored cursor of an address never decreases, whatever heads the
\* provider returns.
C4_CursorMonotonic ==
    [][\A l \in Loops : \A a \in DOMAIN last_checked_block[l] :
          /\ a \in DOMAIN last_checked_block'[l]
          /\ last_checked_block'[l][a] >= Cursor(l, a)]_vars

\* C5: a track or untrack command given while a cycle is suspended does not
\* abort the cycle: the for statement over the address set goes on to the
\* next address or ends normally.
C5_CycleNotAborted ==
    [][\A l \in Loops : task[l].pc = "for" => task'[l].pc # "sleep30"]_vars

\* C6: an exception raised by the processing of one address leaves the cycle
\* as the end of an address's scan leaves it (same head, the iteration at the
\* next key, every cursor, the processed set and the deliveries untouched), and
\* a cycle that reaches its end has scanned every address of the registry up
\* to the head, whether or not an address raised in it.
C6_AddressFailureIsolated ==
    /\ [](\A l \in Loops :
            (task[l].pc = "for" /\ dict_next(data, task[l].it).kind = "StopIteration")
            => \A a \in Keys(data) :
                  is_address(a) => /\ a \in DOMAIN last_checked_block[l]
                                   /\ Cursor(l, a) = task[l].current_block)
    /\ [][\A l \in Loops :
            (/\ task[l].pc = "for"
             /\ dict_next(data, task[l].it).kind = "key"
             /\ ~is_address(dict_next(data, task[l].it).key))
            => /\ task'[l] = BackToFor([task[l] EXCEPT
                                          !.it = dict_next(data, task[l].it).it])
               /\ UNCHANGED <<last_checked_block, processed_txs, notified>>]_vars

\* C6, its case: in one cycle the first key of the registry raised and the
\* address after it was scanned up to the head.
C6_Witness ==
    \E l \in Loops :
        /\ task[l].pc = "for"
        /\ task[l].it.pos = 3
        /\ Len(data) = 2
        /\ data[1].live /\ ~is_address(data[1].key)
        /\ data[2].live /\ data[2].key \in DOMAIN last_checked_block[l]
        /\ Cursor(l, data[2].key) = task[l].current_block

SleepStates == {"sleep12", "sleep30"}

\* C7: every cycle, completed or aborted by a cycle-level exception, is
\* followed by another one unless the bot is shut down (a task that was
\* started and is not cancelled is again and again at the head of a cycle, and
\* again and again asleep between two cycles); a cycle-level exception
\* (the head read or the iteration raises) puts the task to sleep for 30 s with
\* every cursor unchanged, a completed cycle for 12 s; a task never ends
\* otherwise than by cancellation at shutdown.
C7_LoopNeverStops ==
    /\ \A l \in Loops : []<>(task[l].pc \in {"idle", "cancelled", "top"})
    /\ \A l \in Loops : []<>(task[l].pc \in {"idle", "cancelled"} \cup SleepStates)
    /\ [](\A l \in Loops :
            /\ task[l].pc \in {"idle", "cancelled"} \cup Suspended \cup Running
            /\ task[l].pc = "cancelled" => boot = "closed")
    /\ [][\A l \in Loops :
            /\ task[l].pc = "top" => task'[l].pc \in {"top", "for", "sleep30"}
            /\ (task[l].pc = "for" /\ dict_next(data, task[l].it).kind = "RuntimeError")
               => task'[l].pc \in {"for", "sleep30"}
            /\ (task[l].pc = "for" /\ dict_next(data, task[l].it).kind = "StopIteration")
               => task'[l].pc \in {"for", "sleep12"}
            /\ (task[l].pc \in Running /\ task'[l].pc = "sleep30")
               => last_checked_block'[l] = last_checked_block[l]]_vars

\* C7, its case: a cycle that had scanned an address was aborted by an
\* exception, and the task sleeps the 30 s before its next cycle.
C7_Witness ==
    \E l \in Loops :
        /\ task[l].pc = "sleep30"
        /\ last_checked_block[l] # EmptyMap

\* C8: at most one monitor task exists, however often on_ready fires, so no
\* two scans of one address interleave.
C8_SingleLoop ==
    /\ Cardinality({l \in Loops : task[l].pc \notin {"idle", "cancelled"}}) <= 1
    /\ \A l1, l2 \in Loops :
          (l1 # l2 /\ task[l1].pc \in {"native_send", "token_send"}
                   /\ task[l2].address # None)
          => task[l1].address # task[l2].address

\* C9 as stated: the monitor task is started only if a head-height call
\* succeeded during startup.
C9_HeadReadBeforeLoop == Started # {} => setup_block

\* C9 as amended: the monitor task is started only if the connectivity probe
\* of the chosen endpoint returned true; when it returned false the startup
\* ended in the fatal state, for good, and no task is ever started.
C9_ConnectedBeforeLoop ==
    /\ Started # {} => connected = "yes"
    /\ connected = "no" => (boot = "fatal" /\ Started = {})
    /\ boot = "fatal" => connected = "no"

\* C9, its case: the task runs on the public endpoint, which was chosen
\* without any head-height call.
C9_Witness == Started # {} /\ provider = "public" /\ ~setup_block

\* C10: a failing call to the provider (an attempt of the startup, the head
\* read of a cycle, the fetch of a block) is counted against max_retries, or
\* the calls go to the public endpoint from then on.
C10_RetryThenFallback ==
    [][(\/ boot = "attempt" /\ boot' = "attempt" /\ attempt' # attempt
        \/ \E l \in Loops : task[l].pc = "top" /\ task'[l].pc = "sleep30"
        \/ \E l \in Loops : /\ task[l].pc = "block" /\ task'[l].pc = "block"
                             /\ task[l].failed = 0 /\ task'[l].failed # 0)
       => \/ attempt' = attempt + 1 /\ attempt' <= max_retries
          \/ provider' = "public"]_vars

\* The display name of the entry at key k (None when the entry has none).
NameOf(d, k) == IF "name" \in DOMAIN Get(d, k) THEN Get(d, k).name ELSE None

\* The keys of the entries whose display name is n.
Named(d, n) == {k \in Keys(d) : NameOf(d, k) = n}

\* C11: no two entries of the registry have the same display name, whether
\* the name was given or generated from the address.
C11_NamesUnique ==
    \A k1, k2 \in Keys(data) :
        (k1 # k2 /\ NameOf(data, k1) # None) => NameOf(data, k1) # NameOf(data, k2)

\* The reasons the track command has to reject what was typed.
InvalidFilter(args) ==
    \E i \in 1..Len(args) :
        \/ args[i].k = "token" /\ ~is_address(args[i].s)
        \/ args[i].k = "min" /\ (~args[i].ok \/ args[i].v <= 0)

MustReject(d, inp) ==
    \/ ~is_address(inp[1])
    \/ is_address(inp[1]) /\ Has(d, to_checksum_address(inp[1]))
    \/ inp[2] # None /\ Named(d, inp[2]) # {}
    \/ InvalidFilter(inp[3])

\* C12: a track command with an invalid address, a tracked address, a name in
\* use, an invalid token address or a minimum that is not a positive number
\* leaves the entries and both name mappings as they were.
C12_RejectedTrackChangesNothing ==
    [][\A inp \in TrackCommands :
          (MustReject(data, inp) /\ TrackIn(inp, TRUE, MaxSlots + 1))
          => UNCHANGED <<data, address_to_name, name_to_address>>]_vars

\* C13: every key of the registry is an address in its checksummed form, and
\* a track of an address the registry holds, in whatever letter case it is
\* typed, adds nothing.
C13_KeysChecksummed ==
    /\ [](\A k \in Keys(data) : is_address(k) /\ k = to_checksum_address(k))
    /\ [][\A inp \in TrackCommands :
            (/\ is_address(inp[1])
             /\ \E k \in Keys(data) : lower(k) = lower(inp[1])
             /\ TrackIn(inp, TRUE, MaxSlots + 1))
            => UNCHANGED data]_vars

\* The entries an identifier designates: the one at that address, the ones
\* of that display name.
Designated(d, identifier) ==
    {k \in Keys(d) : \/ is_address(identifier) /\ k = to_checksum_address(identifier)
                     \/ NameOf(d, k) = identifier}

\* C14: in every state of the registry, remove_address given an identifier
\* that designates one entry removes that entry and returns true, given one
\* that designates none removes nothing and returns false, and in both cases
\* leaves every other entry and its name mappings as they were.
C14_RemoveExactlyOne ==
    \A identifier \in UntrackCommands :
        LET r == remove_address(data, address_to_name, name_to_address, identifier)
            hit == Designated(data, identifier)
            kept == IF Cardinality(hit) = 1 THEN Keys(data) \ hit ELSE Keys(data)
        IN /\ hit = {} => r.result = "false"
           /\ Cardinality(hit) = 1 => r.result = "true"
           /\ Cardinality(hit) <= 1 =>
                /\ Keys(r.data) = kept
                /\ \A k \in kept :
                      /\ Get(r.data, k) = Get(data, k)
                      /\ MapGet(r.address_to_name, k) = MapGet(address_to_name, k)
                      /\ NameOf(data, k) # None =>
                            MapGet(r.name_to_address, NameOf(data, k))
                              = MapGet(name_to_address, NameOf(data, k))

FourKinds == {"contract_creation", "token_transfer", "contract_interaction",
              "eth_transfer"}

\* C15: the classifier returns one of the four kinds, by the ordered rules:
\* no `to`: contract creation; else the transfer selector at the head of the
\* input: token transfer; else a contract address in the receipt or call data:
\* contract interaction; else: eth transfer.
C15_ClassifierRules ==
    handler.type # "none" =>
        LET tx == handler.tx
            receipt == handler.receipt
            selector == Len(tx.input) >= 4 /\ \A i \in 1..4 : tx.input[i] = TransferSelector[i]
        IN /\ handler.type \in FourKinds
           /\ handler.type = "contract_creation" <=> tx.to = None
           /\ handler.type = "token_transfer" <=> (tx.to # None /\ selector)
           /\ handler.type = "contract_interaction" <=>
                (/\ tx.to # None /\ ~selector
                 /\ (receipt.contractAddress # None \/ tx.input # << >>))
           /\ handler.type = "eth_transfer" <=>
                (/\ tx.to # None /\ ~selector
                 /\ receipt.contractAddress = None /\ tx.input = << >>)

\* C15, its case: a call to a contract whose input is the transfer selector
\* followed by more call data was classified as a token transfer.
C15_Witness ==
    /\ handler.type = "token_transfer"
    /\ Len(handler.tx.input) > Len(TransferSelector)
    /\ handler.receipt.contractAddress # None

\* C16: with an empty filter set the filter returns true, whatever the
\* transaction and the receipt.
C16_EmptyFilterAccepts ==
    (handler.matches # "none" /\ DOMAIN handler.filters = {})
    => handler.matches = "True"

\* C16, its case: the filter was evaluated with no filter on a contract
\* creation of value 0, and accepted it.
C16_Witness ==
    /\ handler.matches = "True"
    /\ DOMAIN handler.filters = {}
    /\ handler.tx.to = None
    /\ handler.tx.value = 0

\* The ERC-20 Transfer logs of a receipt.
TransferLogs(receipt) ==
    {i \in 1..Len(receipt.logs) : IsTransferLog(receipt.logs[i])}

\* The contract a transaction deals with: the token contract of its Transfer
\* logs when it is a token transfer, its `to` otherwise.
Counterparties(tx, receipt) ==
    IF _determine_transaction_type(tx, receipt) = "token_transfer"
    THEN {receipt.logs[i].address : i \in TransferLogs(receipt)}
    ELSE {tx.to} \ {None}

\* C17: with a token address in the filter set, the filter returns true only
\* when the counterparty contract of the transaction is that token address,
\* letter case apart; a transaction without `to` is rejected.
C17_TokenFilter ==
    (handler.matches = "True" /\ "token_address" \in DOMAIN handler.filters)
    => \E c \in Counterparties(handler.tx, handler.receipt) :
           lower(c) = lower(handler.filters.token_address)

\* The amount a minimum applies to: the amount of the Transfer log of a token
\* transfer, the native value otherwise.
RelevantAmounts(tx, receipt) ==
    IF _determine_transaction_type(tx, receipt) = "token_transfer"
    THEN {receipt.logs[i].data : i \in TransferLogs(receipt)}
    ELSE {tx.value}

\* C18: with a minimum amount in the filter set, the filter returns true only
\* when the relevant amount is at least the minimum (and does return true when
\* the native value of a native transaction equals it); with a token address
\* as well, only when both constraints hold.
C18_MinAmountFilter ==
    (handler.matches # "none" /\ "min_amount" \in DOMAIN handler.filters)
    => /\ handler.matches = "True" =>
            /\ \E x \in RelevantAmounts(handler.tx, handler.receipt) :
                   x >= handler.filters.min_amount
            /\ "token_address" \in DOMAIN handler.filters =>
                   \E c \in Counterparties(handler.tx, handler.receipt) :
                       lower(c) = lower(handler.filters.token_address)
       /\ (/\ DOMAIN handler.filters = {"min_amount"}
           /\ _determine_transaction_type(handler.tx, handler.receipt) = "eth_transfer"
           /\ handler.tx.value = handler.filters.min_amount)
          => handler.matches = "True"

\* C18, the minimum alone (no token filter, so that the token test plays no
\* part): the minimum of a token transfer is met by the amount of its log.
C18_MinAmountAlone ==
    (/\ handler.matches = "True"
     /\ DOMAIN handler.filters = {"min_amount"}
     /\ TransferLogs(handler.receipt) # {})
    => \E x \in RelevantAmounts(handler.tx, handler.receipt) :
           x >= handler.filters.min_amount

\* C19: a hash that was marked is reported as processed in every later state
\* (no step takes a hash out of the processed set, and process_transaction
\* returns without a notification for it), and marking a marked hash leaves
\* the set as it was.
C19_ProcessedSetGrows ==
    /\ [][processed_txs \subseteq processed_txs']_vars
    /\ [](\A h \in processed_txs :
            /\ is_tx_processed(processed_txs, h)
            /\ mark_tx_processed(processed_txs, h) = processed_txs
            /\ \A a \in Keys(data), out \in BOOLEAN :
                  process_transaction(h, a, out, processed_txs, data, "ok", TRUE)
                    = NoEmbed)
    /\ [][\A l \in Loops :
            (/\ task[l].pc = "native_send"
             /\ task[l].embed.hash \in processed_txs
             /\ emitted' = task[l].embed)
            => processed_txs' = processed_txs]_vars

\* C19, its case: the hash h1 was marked by one task while another was
\* sending its notification, and so was marked a second time; h2 was marked
\* after it.
C19_Witness ==
    /\ notified["h1"] = 2
    /\ processed_txs = {"h1", "h2"}

\* The transaction is one the loop detects for the address: the address is
\* its sender or its recipient, or that of an ERC-20 Transfer log of it.
Touches(tx, address) ==
    \/ NativeOutgoing(tx, address)
    \/ NativeIncoming(tx, address)
    \/ \E i \in 1..Len(tx.logs) :
          TokenIncoming(tx.logs[i], address) \/ TokenOutgoing(tx.logs[i], address)

\* C20: no successful transaction that touches a tracked address is lost: the
\* cursor of the address moves past a block only when every such transaction
\* of the block has produced a notification (a block or a receipt that could
\* not be fetched is left for a later cycle).
C20_NothingLost ==
    [][\A l \in Loops :
          (/\ task[l].pc = "block" /\ task'[l].pc = "for"
           /\ Has(data, task[l].address))
          => \A b \in (Cursor(l, task[l].address) + 1)..task[l].current_block :
                \A i \in 1..Len(Chain(b)) :
                    (Chain(b)[i].status = 1 /\ Touches(Chain(b)[i], task[l].address))
                    => notified'[Chain(b)[i].hash] >= 1]_vars

\* C21: a hash is in the processed set only if a notification for it was
\* delivered: the set grows only by the hash of the native notification the
\* step delivers, for a hash that was not in it when the send began or was put
\* in it while the send was awaited; a send that raises, and a call of
\* process_transaction that ends without a send, leave the set as it was.
C21_MarkedOnlyIfDelivered ==
    /\ [](\A h \in processed_txs : notified[h] >= 1)
    /\ [][processed_txs' # processed_txs
          => /\ emitted' # NoEmbed
             /\ emitted'.kind = "native"
             /\ processed_txs' = processed_txs \cup {emitted'.hash}
             /\ notified'[emitted'.hash] >= 1]_vars
    /\ [][\A l \in Loops :
            (task[l].pc \in {"tx", "native_send"} /\ emitted' = NoEmbed)
            => processed_txs' = processed_txs]_vars
    /\ [][\A l \in Loops :
            (task[l].pc = "tx" /\ task'[l].pc = "native_send")
            => ~is_tx_processed(processed_txs, task'[l].embed.hash)]_vars

\* C21, its case: h1 was delivered and marked in an earlier cycle; in this
\* cycle process_transaction was called for h2, a successful transaction of
\* the address, and ended without a delivery, leaving h2 out of the set.
C21_Witness ==
    \E l \in Loops :
        /\ task[l].pc = "receipt"
        /\ CurrentTx(task[l]).hash = "h2"
        /\ NativeOutgoing(CurrentTx(task[l]), task[l].address)
        /\ processed_txs = {"h1"}
        /\ notified["h1"] = 1
        /\ notified["h2"] = 0

\* The positions of a task inside a cycle, the head read.
InCycle == (Running \ {"top"}) \cup {"native_send", "token_send"}

\* C22: the head is read once in a cycle, before any address is scanned (the
\* height the task holds does not change from the for statement to the end of
\* the cycle); the blocks walked for an address are above its cursor and not
\* above that height; the cursor of an address, once it exists, is written only
\* when the walk of its range is over, and then it is that height; so every
\* address the iteration has passed, and with the end of the cycle every
\* address scanned in it, has its cursor at that height.
C22_CycleUsesOneHead ==
    /\ [][\A l \in Loops :
            (task[l].pc \in InCycle /\ task'[l].pc \in InCycle)
            => task'[l].current_block = task[l].current_block]_vars
    /\ [](\A l \in Loops :
            task[l].pc \in {"tx", "receipt", "log", "native_send", "token_send"}
            => /\ task[l].block_num > Cursor(l, task[l].address)
               /\ task[l].block_num <= task[l].current_block)
    /\ [][\A l \in Loops : \A a \in DOMAIN last_checked_block[l] :
            last_checked_block'[l][a] # Cursor(l, a)
            => /\ task[l].pc = "block"
               /\ task[l].address = a
               /\ task[l].block_num > task[l].current_block
               /\ last_checked_block'[l][a] = task[l].current_block]_vars
    /\ [](\A l \in Loops :
            task[l].pc = "for"
            => \A i \in 1..Len(data) :
                  (i < task[l].it.pos /\ data[i].live /\ is_address(data[i].key))
                  => /\ data[i].key \in DOMAIN last_checked_block[l]
                     /\ Cursor(l, data[i].key) = task[l].current_block)

\* C22, its case: a cycle whose head is above 1 is at its end, two addresses
\* scanned in it, the second of them over a range of more than one block.
C22_Witness ==
    \E l \in Loops :
        /\ task[l].pc = "for"
        /\ dict_next(data, task[l].it).kind = "StopIteration"
        /\ task[l].current_block = 3
        /\ Len(data) = 2 /\ data[1].live /\ data[2].live
        /\ is_address(data[1].key) /\ is_address(data[2].key)
        /\ Cursor(l, data[1].key) = 3
        /\ Cursor(l, data[2].key) = 3
        /\ notified["h2"] >= 1

\* The logs of a receipt with exactly three topics, the first of them the
\* signature of Transfer(address,address,uint256).
Candidates(logs) == {i \in 1..Len(logs) : IsTransferLog(logs[i])}

\* C23: the token transfers TransactionHandler.process_transaction reports
\* are those of the logs with exactly three topics and the Transfer signature,
\* one for each: a log of four topics is not reported.
C23_TransferCandidate ==
    handler.info.returned = "tx_info"
    => Len(handler.info.token_transfers)
         = Cardinality(Candidates(handler.receipt.logs))

\* C23, in the scan loop: process_token_transfer is called, and a token
\* notification sent, only for a log with exactly three topics and the
\* Transfer signature.
C23_ScanLoopCandidate ==
    /\ [](\A l \in Loops :
            task[l].pc = "token_send"
            => /\ Len(CurrentLog(task[l]).topics) = 3
               /\ CurrentLog(task[l]).topics[1] = TransferSig)
    /\ [](emitted.kind = "token"
          => \E i \in Candidates(TxOf(emitted.hash).logs) :
                TxOf(emitted.hash).logs[i].data = emitted.amount)

\* The place of the walk after the transaction the task is at: the next
\* transaction of the block, or the next block of the range.
NextPlace(t) ==
    IF t.txi < Len(Chain(t.block_num))
    THEN [pc |-> "tx", block_num |-> t.block_num, txi |-> t.txi + 1]
    ELSE [pc |-> "block", block_num |-> t.block_num + 1, txi |-> 0]

Place(t) == [pc |-> t.pc, block_num |-> t.block_num, txi |-> t.txi]

\* C24: when get_transaction_receipt raises for a transaction, the walk goes
\* on at the next transaction of the block, or at the next block of the range
\* when the block is done, with the same address, head and cursors; and from
\* there no transaction is passed over: the walk leaves a transaction only
\* for the one after it.
C24_ReceiptFailureIsolated ==
    /\ [][\A l \in Loops :
            (task[l].pc = "receipt" /\ task'[l].receipt_failed)
            => /\ Place(task'[l]) = NextPlace(task[l])
               /\ task'[l].address = task[l].address
               /\ task'[l].current_block = task[l].current_block
               /\ task'[l].it = task[l].it
               /\ UNCHANGED <<last_checked_block, processed_txs, notified>>]_vars
    /\ [][\A l \in Loops :
            (/\ task[l].pc \in {"tx", "receipt", "log", "native_send", "token_send"}
             /\ task'[l].pc \in InCycle
             /\ <<task'[l].block_num, task'[l].txi>> # <<task[l].block_num, task[l].txi>>)
            => Place(task'[l]) = NextPlace(task[l])]_vars
    /\ [](\A l \in Loops :
            task[l].pc \in {"tx", "receipt", "log", "native_send", "token_send"}
            => task[l].txi \in 1..Len(Chain(task[l].block_num)))

\* C24, its case: the receipt of h2, which holds a Transfer log to the
\* address, could not be fetched; the task is at h3, the next transaction of
\* the block, and no notification was delivered for h2.
C24_Witness ==
    \E l \in Loops :
        /\ task[l].receipt_failed
        /\ task[l].pc = "tx"
        /\ CurrentTx(task[l]).hash = "h3"
        /\ task[l].address = Str("B", "cs")
        /\ notified["h2"] = 0

\* C25: while an address is scanned whose cursor is not below the head of the
\* cycle, the range is empty (the task is at the end of the block loop, no
\* block and no transaction reached), and the next step of the task ends the
\* scan: no block is fetched, no receipt, and nothing is delivered or marked.
C25_EmptyRangeIsQuiet ==
    /\ [](\A l \in Loops :
            (/\ task[l].pc \in InCycle \ {"for"}
             /\ Cursor(l, task[l].address) >= task[l].current_block)
            => /\ task[l].pc = "block"
               /\ task[l].block_num > task[l].current_block
               /\ task[l].txi = 0)
    /\ [][\A l \in Loops :
            (/\ task[l].pc = "block"
             /\ Cursor(l, task[l].address) >= task[l].current_block
             /\ task'[l] # task[l])
            => /\ task'[l].pc = "for"
               /\ emitted' = NoEmbed
               /\ UNCHANGED <<notified, processed_txs>>]_vars

\* C25, its case: the address was scanned up to height 2 in an earlier cycle
\* (h2 was notified), the head of this cycle is 2 again, and the scan of the
\* address is at the end of its empty range.
C25_Witness ==
    \E l \in Loops :
        /\ task[l].pc = "block"
        /\ task[l].address = Str("A", "cs")
        /\ task[l].current_block = 2
        /\ Cursor(l, task[l].address) = 2
        /\ notified["h2"] >= 1

\* C26: a token transfer of the address whose metadata calls raise is still
\* reported, whenever the one whose calls succeed is, with the symbol "???"
\* and 18 decimals and the amount of the log; the task then goes on with the
\* next log of the transaction, or with the next transaction.
C26_MetadataFailureReported ==
    /\ [](\A l \in Loops :
            (/\ task[l].pc = "log"
             /\ \/ TokenIncoming(CurrentLog(task[l]), task[l].address)
                \/ TokenOutgoing(CurrentLog(task[l]), task[l].address))
            => \A channel \in BOOLEAN, out \in BOOLEAN :
                  LET call(meta) ==
                        process_token_transfer(CurrentTx(task[l]).hash, task[l].address,
                                               CurrentLog(task[l]), out, data, meta,
                                               channel)
                  IN /\ call("raises") = NoEmbed <=> call("ok") = NoEmbed
                     /\ call("raises") # NoEmbed
                        => call("raises") =
                             [call("ok") EXCEPT !.symbol = PlaceholderInfo.symbol,
                                                !.decimals = PlaceholderInfo.decimals])
    /\ [](PlaceholderInfo = [name |-> "Unknown Token", symbol |-> "???",
                             decimals |-> 18])
    /\ [][\A l \in Loops :
            (/\ task[l].pc = "token_send"
             /\ task[l].embed.symbol = PlaceholderInfo.symbol
             /\ task'[l] # task[l]
             /\ task'[l].pc # "cancelled")
            => /\ task'[l] = AfterLog(task[l])
               /\ emitted' \in {NoEmbed, task[l].embed}]_vars

\* C26, its case: the metadata calls of the token of h2 raised, and the
\* notification of the transfer was delivered with the placeholders.
C26_Witness ==
    /\ emitted.kind = "token"
    /\ emitted.hash = "h2"
    /\ emitted.symbol = "???"
    /\ emitted.decimals = 18
    /\ emitted.amount = 20

\* The logs of a receipt the handler takes as token transfers.
HandlerLogs(logs) == {i \in 1..Len(logs) : HandlerTransferLog(logs[i])}

\* C26, in TransactionHandler.process_transaction: every log taken as a token
\* transfer has its entry in token_transfers, the ones whose metadata calls
\* raised with the placeholders.
C26_HandlerPlaceholders ==
    handler.info.returned = "tx_info"
    => LET tt == handler.info.token_transfers
           unknown == {k \in 1..Len(tt) : tt[k].token_symbol = "???"}
       IN /\ Len(tt) = Cardinality(HandlerLogs(handler.receipt.logs))
          /\ Cardinality(unknown)
               = Cardinality(handler.fails \cap HandlerLogs(handler.receipt.logs))
          /\ \A k \in unknown : /\ tt[k].token_name = "Unknown Token"
                                 /\ tt[k].decimals = 18

SendStates == {"native_send", "token_send"}

\* C27 as stated: in the state a notification is delivered in, its address
\* is in the registry.
C27_NoDeliveryForRemovedAddress ==
    emitted # NoEmbed => Has(data, emitted.address)

\* C27 as amended: a send is begun only for an address that is in the
\* registry at that moment, and a match found for an address that is not is
\* dropped: no send, no delivery, nothing marked.  A notification delivered
\* for an address that has left the registry is the one whose send was under
\* way when it left.
C27_NoSendForRemovedAddress ==
    /\ [][\A l \in Loops :
            (task[l].pc \notin SendStates /\ task'[l].pc \in SendStates)
            => /\ Has(data, task'[l].embed.address)
               /\ task'[l].embed.address = task[l].address
               /\ data' = data]_vars
    /\ [][\A l \in Loops :
            (task[l].pc \in {"tx", "log"} /\ ~Has(data, task[l].address))
            => /\ task'[l].pc \notin SendStates
               /\ emitted' = NoEmbed
               /\ UNCHANGED <<notified, processed_txs>>]_vars
    /\ [][(emitted' # NoEmbed /\ ~Has(data', emitted'.address))
          => \E l \in Loops : /\ task[l].pc \in SendStates
                               /\ task[l].embed = emitted'
                               /\ task[l].address = emitted'.address]_vars

\* C27, its case: the address was removed while the notification of h2 was
\* being sent; the scan went on and is at the Transfer log of h2 that names
\* the address.
C27_Witness ==
    \E l \in Loops :
        /\ task[l].pc = "log"
        /\ TokenOutgoing(CurrentLog(task[l]), task[l].address)
        /\ ~Has(data, task[l].address)
        /\ processed_txs = {"h2"}

\* C28: a task cancelled while the range of an address is walked leaves the
\* cursor of the address at the value it had when the walk began (one below
\* the first block of the range), and writes no cursor afterwards; a cursor
\* that exists is written only by the task at the end of the block loop.
C28_NoPartialCursorOnCancel ==
    /\ [][\A l \in Loops :
            (task[l].pc \in SendStates /\ task'[l].pc = "cancelled")
            => /\ last_checked_block'[l] = last_checked_block[l]
               /\ Cursor(l, task[l].address) < task[l].block_num]_vars
    /\ [][\A l \in Loops :
            task[l].pc = "cancelled"
            => /\ task'[l].pc = "cancelled"
               /\ last_checked_block'[l] = last_checked_block[l]]_vars
    /\ [][\A l \in Loops : \A a \in DOMAIN last_checked_block[l] :
            last_checked_block'[l][a] # Cursor(l, a)
            => /\ task[l].pc = "block" /\ task'[l].pc = "for"
               /\ task[l].block_num > task[l].current_block]_vars

\* C28, its case: the task was cancelled in the first scan of the address, the
\* head being 1, while the notification of h1 was sent: the cursor is 0, the
\* value it was given before the walk of the range [1, 1].
C28_Witness ==
    \E l \in Loops :
        /\ task[l].pc = "cancelled"
        /\ Str("A", "cs") \in DOMAIN last_checked_block[l]
        /\ Cursor(l, Str("A", "cs")) = 0

\* C29: the first scan of an address after it was added to the registry
\* begins with the cursor at the head of the cycle less one, and so at the
\* block of the head: no block below the head of that cycle is walked for it.
C29_FirstScanIsHeadOnly ==
    [][\A l \in Loops :
          (/\ task[l].pc = "for" /\ task'[l].pc = "block"
           /\ task'[l].address \in fresh)
          => /\ last_checked_block'[l][task'[l].address] = task[l].current_block - 1
             /\ task'[l].block_num = task[l].current_block]_vars

\* C30: a native notification is sent, and a hash marked, only for a
\* transaction whose receipt has status 1; a transaction whose receipt has
\* status 0 (it has no logs: a reverted transaction emits none) is never
\* notified and never in the processed set.
C30_OnlySuccessfulNotified ==
    /\ \A l \in Loops :
          task[l].pc = "native_send" => TxOf(task[l].embed.hash).status = 1
    /\ emitted.kind = "native" => TxOf(emitted.hash).status = 1
    /\ \A h \in Hashes :
          TxOf(h).status # 1 => (notified[h] = 0 /\ h \notin processed_txs)
    /\ \A h \in processed_txs : TxOf(h).status = 1

\* C30, its case: process_transaction was called for h3, a transaction to
\* the tracked address whose receipt has status 0, and returned; nothing was
\* delivered for it.
C30_Witness ==
    \E l \in Loops :
        /\ task[l].pc = "receipt"
        /\ CurrentTx(task[l]).hash = "h3"
        /\ CurrentTx(task[l]).status = 0
        /\ NativeIncoming(CurrentTx(task[l]), task[l].address)
        /\ Has(data, task[l].address)
        /\ notified["h3"] = 0

\* C30, in TransactionHandler.process_transaction: tx_info is returned only
\* for a receipt of status 1.
C30_HandlerStatus ==
    handler.info.returned = "tx_info" => handler.receipt.status = 1

\* C31: address_to_name and name_to_address are inverse of each other, the
\* addresses they hold are the keys of the registry, and so remove_address,
\* whatever identifier it is given, does not raise, and has saved the
\* registry when it returns true.
C31_NameMappingsInverse ==
    /\ DOMAIN address_to_name = Keys(data)
    /\ \A a \in DOMAIN address_to_name :
          /\ address_to_name[a] \in DOMAIN name_to_address
          /\ name_to_address[address_to_name[a]] = a
    /\ \A n \in DOMAIN name_to_address :
          /\ name_to_address[n] \in DOMAIN address_to_name
          /\ address_to_name[name_to_address[n]] = n
    /\ \A identifier \in UntrackCommands :
          LET r == remove_address(data, address_to_name, name_to_address, identifier)
          IN /\ r.result # "raised"
             /\ r.result = "true" => r.saved

\* The slot of a key of the dict: the order in which the for statement of
\* line 258 meets the keys.
Pos(d, k) == CHOOSE i \in 1..Len(d) : d[i].live /\ d[i].key = k

\* The sender and the recipient of the transaction are both keys of d.
BothTracked(d, tx) ==
    /\ tx.to # None
    /\ Has(d, to_checksum_address(tx.from))
    /\ Has(d, to_checksum_address(tx.to))
    /\ tx.from # tx.to

\* The native notification the step delivers, if any.
NativeDelivery(e) == e # NoEmbed /\ e.kind = "native"

\* C32 as amended: one task running, at most one native notification is
\* delivered for a hash, whatever the number of tracked addresses it touches:
\* it is delivered for a hash that is not in the processed set and puts it
\* there, the set loses no hash, and the scan of another address that comes
\* to a marked hash sends nothing.  It goes to the first address whose scan
\* comes to the transaction and whose send succeeds.
C32_OneNativeNotification ==
    /\ [][NativeDelivery(emitted')
          => /\ emitted'.hash \notin processed_txs
             /\ emitted'.hash \in processed_txs']_vars
    /\ [][processed_txs \subseteq processed_txs']_vars
    /\ [][\A l \in Loops :
            (task[l].pc = "tx" /\ CurrentTx(task[l]).hash \in processed_txs)
            => task'[l].pc # "native_send"]_vars

\* C32 as stated: moreover, when the sender and the recipient are both
\* tracked, the native notification goes to the one of the two the for
\* statement meets first.
C32_FirstIteratedOnly ==
    /\ C32_OneNativeNotification
    /\ [][(NativeDelivery(emitted') /\ BothTracked(data, TxOf(emitted'.hash)))
          => \A k \in { to_checksum_address(TxOf(emitted'.hash).from),
                         to_checksum_address(TxOf(emitted'.hash).to) } :
                Pos(data, emitted'.address) <= Pos(data, k)]_vars

\* C32, its case: A, the sender of h1, and B, its recipient, are tracked, A
\* before B; the one native notification of h1 was delivered, and to B.
C32_Witness ==
    /\ NativeDelivery(emitted)
    /\ emitted.hash = "h1"
    /\ emitted.address = Str("B", "cs")
    /\ BothTracked(data, TxOf("h1"))
    /\ Pos(data, Str("A", "cs")) < Pos(data, Str("B", "cs"))
    /\ notified["h1"] = 1
    /\ processed_txs = {"h1"}

====
